---- MODULE Spec2Model ----
(***************************************************************************)
(* multikast: a command line tool that joins a multicast group and either  *)
(* prints what it receives (Listen) or sends each line of standard input   *)
(* as one datagram (Talk).  Model of src/src/main.rs.                      *)
(*                                                                         *)
(* Text is a sequence of one-character strings.  A u32 is kept as two      *)
(* 16-bit limbs <<hi, lo>> so that the 32-bit overflow test of the integer *)
(* parser is computed at its real width.                                   *)
(***************************************************************************)
EXTENDS Integers, Sequences, FiniteSets, TLC

VARIABLES pc, arg_i, arg_a, arg_p, arg_m, cfg, multi, sock, steps, result, err,
          panic, stdin, rest, eof, line, linesRead, sent, sendAttempts,
          ioFailed, received, stdout

vars == <<pc, arg_i, arg_a, arg_p, arg_m, cfg, multi, sock, steps, result, err,
          panic, stdin, rest, eof, line, linesRead, sent, sendAttempts,
          ioFailed, received, stdout>>

\* ---------------------------------------------------------------- bounds

\* Longest dotted text given to parse_interface, in dot-separated parts.
MaxParts == 4
\* Longest standard input, in bytes.
MaxInput == 4
\* Most datagrams a Listen run is offered.
MaxRecv == 2

\* ------------------------------------------------------------- constants

\* The size of the receive buffer.
BufSize == 1024
\* A 16-bit limb's modulus; a u32 is hi * Limb + lo with hi, lo < Limb.
Limb == 65536

\* A failed step of a parser, and an absent command line flag.
Fail == [ok |-> FALSE]
NoArg == [given |-> FALSE]
Arg(v) == [given |-> TRUE, val |-> v]

\* ------------------------------------------------------------------ text

Digits == {"0", "1", "2", "3", "4", "5", "6", "7", "8", "9"}

DigitVal(c) ==
  CASE c = "0" -> 0 [] c = "1" -> 1 [] c = "2" -> 2 [] c = "3" -> 3
    [] c = "4" -> 4 [] c = "5" -> 5 [] c = "6" -> 6 [] c = "7" -> 7
    [] c = "8" -> 8 [] c = "9" -> 9

\* ------------------------------------------------- str::parse::<u32>()

\* One digit more: acc * 10 + d with the checked multiply and add of a u32,
\* acc and the result being <<hi, lo>>; an overflow fails.
u32_push(acc, d) ==
  LET lo10 == acc[2] * 10 + d
      hi10 == acc[1] * 10 + (lo10 \div Limb)
  IN  IF hi10 >= Limb THEN Fail ELSE [ok |-> TRUE, val |-> <<hi10, lo10 % Limb>>]

RECURSIVE u32_digits(_, _)
u32_digits(s, acc) ==
  IF s = <<>> THEN [ok |-> TRUE, val |-> acc]
  ELSE IF Head(s) \notin Digits THEN Fail
  ELSE LET r == u32_push(acc, DigitVal(Head(s)))
       IN  IF r.ok THEN u32_digits(Tail(s), r.val) ELSE Fail

\* s.parse::<u32>(): an optional "+", then one or more decimal digits whose
\* value fits 32 bits.  A "-" is no digit of an unsigned integer.
parse_u32(s) ==
  LET body == IF s # <<>> /\ Head(s) = "+" THEN Tail(s) ELSE s
  IN  IF body = <<>> THEN Fail ELSE u32_digits(body, <<0, 0>>)

\* --------------------------------------------- str::parse::<Ipv4Addr>()

RECURSIVE digit_run(_, _)
\* The number of digits of s from position p on.
digit_run(s, p) ==
  IF p > Len(s) THEN 0
  ELSE IF s[p] \notin Digits THEN 0
  ELSE 1 + digit_run(s, p + 1)

\* read_number(10, Some(3), false) as u8 at position p: the digits are read
\* greedily; more than three, a zero prefix, or a value over 255 is no number.
read_octet(s, p) ==
  LET n == digit_run(s, p)
      v == IF n = 1 THEN DigitVal(s[p])
           ELSE IF n = 2 THEN DigitVal(s[p]) * 10 + DigitVal(s[p + 1])
           ELSE DigitVal(s[p]) * 100 + DigitVal(s[p + 1]) * 10 + DigitVal(s[p + 2])
  IN  IF n = 0 \/ n > 3 THEN Fail
      ELSE IF s[p] = "0" /\ n > 1 THEN Fail
      ELSE IF v > 255 THEN Fail
      ELSE [ok |-> TRUE, val |-> v, next |-> p + n]

RECURSIVE read_ipv4(_, _, _)
\* The octets after those of acc, from position p on, each after the first
\* behind a "."; the text must end with the fourth.
read_ipv4(s, p, acc) ==
  IF Len(acc) = 4
  THEN (IF p = Len(s) + 1 THEN [ok |-> TRUE, val |-> acc] ELSE Fail)
  ELSE LET dot == acc # <<>>
           q == IF dot THEN p + 1 ELSE p
           sep == IF dot THEN (IF p <= Len(s) THEN s[p] = "." ELSE FALSE) ELSE TRUE
           o == IF sep THEN read_octet(s, q) ELSE Fail
       IN  IF o.ok THEN read_ipv4(s, o.next, Append(acc, o.val)) ELSE Fail

\* s.parse::<Ipv4Addr>(): at most 15 bytes, four octets joined by dots.
parse_ipv4(s) ==
  IF Len(s) > 15 THEN Fail ELSE read_ipv4(s, 1, <<>>)

\* ------------------------------------------------------ parse_interface

Left(index) == [tag |-> "Left", val |-> index]
Right(addr) == [tag |-> "Right", val |-> addr]
ParseErr == [tag |-> "Err"]

\* A slip: the address parse's error is swallowed, the unspecified address
\* standing in for it.
parse_interface_default(s) ==
  IF parse_u32(s).ok THEN Left(parse_u32(s).val)
  ELSE IF parse_ipv4(s).ok THEN Right(parse_ipv4(s).val)
  ELSE Right(<<0, 0, 0, 0>>)

parse_interface(s) ==
  IF parse_u32(s).ok THEN Left(parse_u32(s).val)
  ELSE IF parse_ipv4(s).ok THEN Right(parse_ipv4(s).val)
  ELSE ParseErr

\* A slip: the index 0 is taken for the unspecified address.
into_iface_any(either) ==
  IF either.tag = "Left" /\ either.val # <<0, 0>>
  THEN [kind |-> "Index", val |-> either.val]
  ELSE [kind |-> "Address",
        val |-> IF either.tag = "Left" THEN <<0, 0, 0, 0>> ELSE either.val]

\* From<Either<u32, Ipv4Addr>> for InterfaceIndexOrAddress.
into_iface(either) ==
  IF either.tag = "Left" THEN [kind |-> "Index", val |-> either.val]
  ELSE [kind |-> "Address", val |-> either.val]

\* ------------------------------------------------------------- addresses

V4(a, b, c, d) == [fam |-> "V4", a |-> <<a, b, c, d>>]
V6(segs) == [fam |-> "V6", a |-> segs]

\* A slip: every address passes for a multicast one.
is_multicast_any(ip) == TRUE

\* IpAddr::is_multicast: 224.0.0.0/4, or ff00::/8.
is_multicast(ip) ==
  IF ip.fam = "V4" THEN ip.a[1] \div 16 = 14 ELSE ip.a[1] \div 256 = 255

\* A slip: an interface index is taken for an IPv4 group as well.
join_match_index(mc_ip, iface) ==
  IF mc_ip.fam = "V4" THEN "v4"
  ELSE IF iface.kind = "Index" THEN "v6" ELSE "invalid"

\* The match of mc_socket on (mc_ip, iface): the join it selects.
join_match(mc_ip, iface) ==
  IF mc_ip.fam = "V4" /\ iface.kind = "Address" THEN "v4"
  ELSE IF mc_ip.fam = "V6" /\ iface.kind = "Index" THEN "v6"
  ELSE "invalid"

\* ------------------------------------------------------ the command line

\* A slip: the default of -i is an address.
DefaultIface_address == <<"0", ".", "0", ".", "0", ".", "0">>

\* default_value of -i and of -a.
DefaultIface == <<"0">>
DefaultAddr == <<"0", ".", "0", ".", "0", ".", "0">>

IfaceArgs ==
  { NoArg,
    Arg(<<"0">>),
    Arg(<<"2">>),
    Arg(<<"1", "9", "2", ".", "1", "6", "8", ".", "1", ".", "1", "0">>),
    Arg(<<"e", "t", "h", "0">>) }

GroupAddrs ==
  { V4(239, 1, 1, 1), V4(224, 0, 0, 251), V4(192, 168, 1, 10), V4(240, 0, 0, 1),
    V6(<<65282, 0, 0, 0, 0, 0, 0, 1>>), V6(<<0, 0, 0, 0, 0, 0, 0, 1>>) }

AddrArgs == {NoArg} \cup {Arg(a) : a \in GroupAddrs}
Ports == {5000, 12345}
Modes == {"Listen", "Talk"}

\* ------------------------------------------------------- standard input

Bytes == {"a", "CR", "LF"}
Inputs == UNION {[1..n -> Bytes] : n \in 0..MaxInput}

RECURSIVE first_lf(_, _)
\* The position of the first LF of s from p on, 0 when there is none.
first_lf(s, p) ==
  IF p > Len(s) THEN 0 ELSE IF s[p] = "LF" THEN p ELSE first_lf(s, p + 1)

\* A slip: the LF is cut, a CR before it is left in the line.
strip_terminator_lf(buf) ==
  IF buf # <<>> /\ buf[Len(buf)] = "LF" THEN SubSeq(buf, 1, Len(buf) - 1) ELSE buf

\* Lines::poll_next_line: a trailing LF is cut, and then a CR before it.
strip_terminator(buf) ==
  IF buf # <<>> /\ buf[Len(buf)] = "LF"
  THEN LET b == SubSeq(buf, 1, Len(buf) - 1)
       IN  IF b # <<>> /\ b[Len(b)] = "CR" THEN SubSeq(b, 1, Len(b) - 1) ELSE b
  ELSE buf

\* lines.next_line() on the unread input r: read up to and with the next LF
\* (or to the end); nothing read is the end of the stream.
next_line(r) ==
  IF r = <<>> THEN [some |-> FALSE]
  ELSE LET k == first_lf(r, 1)
           n == IF k = 0 THEN Len(r) ELSE k
       IN  [some |-> TRUE,
            line |-> strip_terminator(SubSeq(r, 1, n)),
            rest |-> SubSeq(r, n + 1, Len(r))]

\* -------------------------------------------------------------- received

Senders == { [ip |-> V4(10, 0, 0, 7), port |-> 40000],
             [ip |-> V4(10, 0, 0, 9), port |-> 5000] }
DatagramLens == {5, 1500}

Min(a, b) == IF a < b THEN a ELSE b

\* println!("Received {} bytes from {:?}", size, addr)
received_line(size, addr) ==
  <<"Received ", size, " bytes from ", addr>>

\* ------------------------------------------------------------ the socket

NoSock == [created |-> FALSE]
NoCfg == [parsed |-> FALSE]
NoMulti == [set |-> FALSE]

\* Socket::new(Domain::IPV4, Type::DGRAM, Some(Protocol::UDP))
new_socket ==
  [created |-> TRUE, domain |-> "IPV4", type |-> "DGRAM", protocol |-> "UDP",
   nonblocking |-> FALSE, reuse |-> FALSE, bound |-> <<>>, joined |-> <<>>]

set_nonblocking(s) == [s EXCEPT !.nonblocking = TRUE]
set_reuse_address(s) == [s EXCEPT !.reuse = TRUE]
bind(s, addr) == [s EXCEPT !.bound = <<addr>>]

\* bind(2) on a socket of Domain::IPV4 takes an IPv4 socket address alone:
\* the socket address of an IPv6 group is refused with EAFNOSUPPORT.
bind_refused(s, addr) == s.domain = "IPV4" /\ addr.ip.fam # "V4"
join_multicast(s, mc_ip, via) ==
  [s EXCEPT !.joined = <<[group |-> mc_ip, via |-> via]>>]

\* --------------------------------------------------------------- states

Init ==
  /\ pc = "start"
  /\ arg_i \in IfaceArgs
  /\ arg_a \in AddrArgs
  /\ arg_p \in Ports
  /\ arg_m \in Modes
  /\ cfg = NoCfg
  /\ multi = NoMulti
  /\ sock = NoSock
  /\ steps = <<>>
  /\ result = "none"
  /\ err = "none"
  /\ panic = "none"
  /\ stdin \in Inputs
  /\ rest = stdin
  /\ eof = FALSE
  /\ line = <<>>
  /\ linesRead = <<>>
  /\ sent = <<>>
  /\ sendAttempts = 0
  /\ ioFailed = "none"
  /\ received = <<>>
  /\ stdout = <<>>

\* What the mode loops alone touch.
loopVars ==
  <<rest, eof, line, linesRead, sent, sendAttempts, ioFailed, received, stdout>>
argVars == <<arg_i, arg_a, arg_p, arg_m, stdin>>

\* Config::parse(): -i through parse_interface, -a as an IpAddr; a flag left
\* out takes its default_value.  A value that does not parse ends the run
\* with a usage error.
ConfigParse ==
  /\ pc = "start"
  /\ LET i == parse_interface(IF arg_i.given THEN arg_i.val ELSE DefaultIface)
         a == IF arg_a.given THEN arg_a.val
              ELSE [fam |-> "V4", a |-> parse_ipv4(DefaultAddr).val]
     IN  IF i.tag = "Err"
         THEN /\ pc' = "usage_error"
              /\ cfg' = cfg
         ELSE /\ pc' = "main"
              /\ cfg' = [parsed |-> TRUE, iface |-> i, mc_addr |-> a,
                         mc_port |-> arg_p, mode |-> arg_m]
  /\ UNCHANGED <<multi, sock, steps, result, err, panic>>
  /\ UNCHANGED loopVars
  /\ UNCHANGED argVars

\* main: the group's socket address.
BuildMulti ==
  /\ pc = "main"
  /\ multi' = IF cfg.mc_addr.fam = "V4"
              THEN [set |-> TRUE, ip |-> cfg.mc_addr, port |-> cfg.mc_port]
              ELSE [set |-> TRUE, ip |-> cfg.mc_addr, port |-> cfg.mc_port,
                    flowinfo |-> 0, scope_id |-> 0]
  /\ pc' = "mc_assert"
  /\ UNCHANGED <<cfg, sock, steps, result, err, panic>>
  /\ UNCHANGED loopVars
  /\ UNCHANGED argVars

\* mc_socket: assert!(mc_ip.is_multicast()).
McAssert ==
  /\ pc = "mc_assert"
  /\ IF is_multicast(multi.ip)
     THEN pc' = "mc_create" /\ panic' = panic
     ELSE pc' = "panicked" /\ panic' = "assert"
  /\ UNCHANGED <<cfg, multi, sock, steps, result, err>>
  /\ UNCHANGED loopVars
  /\ UNCHANGED argVars

\* The call fails: mc_socket returns the Err through its `?`, and main's
\* unwrap of it panics.
Fails(e) ==
  /\ result' = "Err"
  /\ err' = e
  /\ pc' = "panicked"
  /\ panic' = "unwrap"
  /\ UNCHANGED <<sock, steps>>

\* A step of mc_socket behind a `?`: the call succeeds, the socket becomes s
\* and the run goes on at `next`; or the operating system fails it.
Try(at, step, s, next) ==
  /\ pc = at
  /\ \E ok \in BOOLEAN :
       IF ok
       THEN /\ sock' = s
            /\ steps' = Append(steps, step)
            /\ pc' = next
            /\ UNCHANGED <<result, err, panic>>
       ELSE Fails("os")
  /\ UNCHANGED <<cfg, multi>>
  /\ UNCHANGED loopVars
  /\ UNCHANGED argVars

McCreate == Try("mc_create", "create", new_socket, "mc_nonblocking")

McSetNonblocking ==
  Try("mc_nonblocking", "set_nonblocking", set_nonblocking(sock), "mc_reuse")

McSetReuse ==
  Try("mc_reuse", "set_reuse_address", set_reuse_address(sock), "mc_bind")

\* synsocket.bind(&mc_addr.into())?: an address of another family than the
\* socket's is refused; one of the socket's family is bound unless the
\* operating system fails the call.
McBind ==
  IF pc = "mc_bind" /\ bind_refused(sock, multi)
  THEN /\ Fails("EAFNOSUPPORT")
       /\ UNCHANGED <<cfg, multi>>
       /\ UNCHANGED loopVars
       /\ UNCHANGED argVars
  ELSE Try("mc_bind", "bind", bind(sock, multi), "mc_from_std")

McFromStd == Try("mc_from_std", "from_std", sock, "mc_join")

\* mc_socket: the join the pairing selects, or the panic.  (An IPv6 group
\* does not come this far: its bind is refused.)
McJoin ==
  /\ pc = "mc_join"
  /\ LET iface == into_iface(cfg.iface)
         m == join_match(multi.ip, iface)
     IN  IF m = "invalid"
         THEN /\ pc' = "panicked"
              /\ panic' = "invalid_combination"
              /\ UNCHANGED <<cfg, multi, sock, steps, result, err>>
              /\ UNCHANGED loopVars
              /\ UNCHANGED argVars
         ELSE Try("mc_join", IF m = "v4" THEN "join_multicast_v4" ELSE "join_multicast_v6",
                  join_multicast(sock, multi.ip, iface), "mc_return")

\* mc_socket returns Ok(socket); main unwraps it and enters its mode's loop.
McReturn ==
  /\ pc = "mc_return"
  /\ result' = "Ok"
  /\ pc' = IF cfg.mode = "Listen" THEN "listen" ELSE "talk_read"
  /\ UNCHANGED <<cfg, multi, sock, steps, err, panic>>
  /\ UNCHANGED loopVars
  /\ UNCHANGED argVars

setupVars == <<cfg, multi, sock, steps, result, err>>

\* A slip: the receive is unwrapped, and an error panics.
ListenRecv_unwrap ==
  /\ pc = "listen"
  /\ \/ /\ Len(received) < MaxRecv
        /\ \E n \in DatagramLens, from \in Senders :
             LET size == Min(n, BufSize)
             IN  /\ received' = Append(received, [size |-> size, from |-> from])
                 /\ stdout' = Append(stdout, received_line(size, from))
        /\ UNCHANGED <<pc, panic, ioFailed>>
     \/ /\ ioFailed' = "recv"
        /\ pc' = "panicked"
        /\ panic' = "unwrap_recv"
        /\ UNCHANGED <<received, stdout>>
  /\ UNCHANGED <<rest, eof, line, linesRead, sent, sendAttempts>>
  /\ UNCHANGED setupVars
  /\ UNCHANGED argVars

\* Listen: one recv_from into the 1024-byte buffer.  A datagram is printed
\* and the loop goes on; an error ends the loop.
ListenRecv ==
  /\ pc = "listen"
  /\ \/ /\ Len(received) < MaxRecv
        /\ \E n \in DatagramLens, from \in Senders :
             LET size == Min(n, BufSize)
             IN  /\ received' = Append(received, [size |-> size, from |-> from])
                 /\ stdout' = Append(stdout, received_line(size, from))
        /\ UNCHANGED <<pc, panic, ioFailed>>
     \/ /\ ioFailed' = "recv"
        /\ pc' = "main_end"
        /\ UNCHANGED <<received, stdout, panic>>
  /\ UNCHANGED <<rest, eof, line, linesRead, sent, sendAttempts>>
  /\ UNCHANGED setupVars
  /\ UNCHANGED argVars

\* A slip: the end of the input is unwrapped like a line.
TalkRead_unwrap_eof ==
  /\ pc = "talk_read"
  /\ \/ /\ ioFailed' = "read"
        /\ pc' = "panicked"
        /\ panic' = "unwrap_read"
        /\ UNCHANGED <<rest, eof, line, linesRead>>
     \/ LET r == next_line(rest)
        IN  IF r.some
            THEN /\ line' = r.line
                 /\ rest' = r.rest
                 /\ linesRead' = Append(linesRead, r.line)
                 /\ pc' = "talk_send"
                 /\ UNCHANGED <<eof, panic, ioFailed>>
            ELSE /\ eof' = TRUE
                 /\ pc' = "panicked"
                 /\ panic' = "unwrap_read"
                 /\ UNCHANGED <<rest, line, linesRead, ioFailed>>
  /\ UNCHANGED <<sent, sendAttempts, received, stdout>>
  /\ UNCHANGED setupVars
  /\ UNCHANGED argVars

\* Talk: lines.next_line().await.unwrap(): a read error panics, the end of
\* the input ends the loop, a line goes to the send.
TalkRead ==
  /\ pc = "talk_read"
  /\ \/ /\ ioFailed' = "read"
        /\ pc' = "panicked"
        /\ panic' = "unwrap_read"
        /\ UNCHANGED <<rest, eof, line, linesRead>>
     \/ LET r == next_line(rest)
        IN  IF r.some
            THEN /\ line' = r.line
                 /\ rest' = r.rest
                 /\ linesRead' = Append(linesRead, r.line)
                 /\ pc' = "talk_send"
                 /\ UNCHANGED <<eof, panic, ioFailed>>
            ELSE /\ eof' = TRUE
                 /\ pc' = "main_end"
                 /\ UNCHANGED <<rest, line, linesRead, panic, ioFailed>>
  /\ UNCHANGED <<sent, sendAttempts, received, stdout>>
  /\ UNCHANGED setupVars
  /\ UNCHANGED argVars

\* A slip: a failed send is dropped and the loop goes on.
TalkSend_ignore_err ==
  /\ pc = "talk_send"
  /\ sendAttempts' = sendAttempts + 1
  /\ \/ sent' = Append(sent, [to |-> multi, payload |-> line]) /\ ioFailed' = ioFailed
     \/ sent' = sent /\ ioFailed' = "send"
  /\ pc' = "talk_read"
  /\ UNCHANGED <<rest, eof, line, linesRead, received, stdout, panic>>
  /\ UNCHANGED setupVars
  /\ UNCHANGED argVars

\* Talk: socket.send_to(line.as_bytes(), multi).await.unwrap().
TalkSend ==
  /\ pc = "talk_send"
  /\ sendAttempts' = sendAttempts + 1
  /\ \/ /\ sent' = Append(sent, [to |-> multi, payload |-> line])
        /\ pc' = "talk_read"
        /\ UNCHANGED <<panic, ioFailed>>
     \/ /\ sent' = sent
        /\ ioFailed' = "send"
        /\ pc' = "panicked"
        /\ panic' = "unwrap_send"
  /\ UNCHANGED <<rest, eof, line, linesRead, received, stdout>>
  /\ UNCHANGED setupVars
  /\ UNCHANGED argVars

\* main returns: the process exits with success.
MainReturn ==
  /\ pc = "main_end"
  /\ pc' = "exited_ok"
  /\ UNCHANGED panic
  /\ UNCHANGED loopVars
  /\ UNCHANGED setupVars
  /\ UNCHANGED argVars

Next ==
  \/ ConfigParse
  \/ BuildMulti
  \/ McAssert
  \/ McCreate
  \/ McSetNonblocking
  \/ McSetReuse
  \/ McBind
  \/ McFromStd
  \/ McJoin
  \/ McReturn
  \/ ListenRecv
  \/ TalkRead
  \/ TalkSend
  \/ MainReturn

Spec == Init /\ [][Next]_vars

\* The single task is polled until it finishes, and the fixed standard input
\* answers every read: the Talk loop and main's return go on whenever they can.
FairSpec ==
  Spec /\ WF_vars(TalkRead) /\ WF_vars(TalkSend) /\ WF_vars(MainReturn)

\* ------------------------------------------- parse_interface on its own

\* The parts the dotted texts are put together from.
Parts ==
  { <<>>, <<"0">>, <<"0", "1">>, <<"2", "5", "5">>, <<"2", "5", "6">>,
    <<"+", "1">>, <<"a">>,
    <<"4", "2", "9", "4", "9", "6", "7", "2", "9", "5">>,
    <<"4", "2", "9", "4", "9", "6", "7", "2", "9", "6">> }

RECURSIVE JoinDots(_)
JoinDots(ps) ==
  IF Len(ps) = 1 THEN ps[1] ELSE ps[1] \o <<".">> \o JoinDots(Tail(ps))

ParseInputs == { JoinDots(ps) : ps \in UNION {[1..n -> Parts] : n \in 1..MaxParts} }

InitParse ==
  /\ pc = "start"
  /\ arg_i \in {Arg(s) : s \in ParseInputs}
  /\ arg_a = NoArg
  /\ arg_p = 5000
  /\ arg_m = "Listen"
  /\ cfg = NoCfg
  /\ multi = NoMulti
  /\ sock = NoSock
  /\ steps = <<>>
  /\ result = "none"
  /\ err = "none"
  /\ panic = "none"
  /\ stdin = <<>>
  /\ rest = stdin
  /\ eof = FALSE
  /\ line = <<>>
  /\ linesRead = <<>>
  /\ sent = <<>>
  /\ sendAttempts = 0
  /\ ioFailed = "none"
  /\ received = <<>>
  /\ stdout = <<>>

NextParse == ConfigParse

SpecParse == InitParse /\ [][NextParse]_vars

\* ------------------------------------------------ what the texts denote

\* The decimal numeral of n, without sign or leading zeros.
RECURSIVE Decimal(_)
Decimal(n) ==
  LET d == CHOOSE c \in Digits : DigitVal(c) = n % 10
  IN  IF n < 10 THEN <<d>> ELSE Append(Decimal(n \div 10), d)

OctetTexts == { Decimal(n) : n \in 0..255 }

RECURSIVE Pow10(_)
Pow10(k) == IF k = 0 THEN 1 ELSE 10 * Pow10(k - 1)

\* The value of a digit text of at most nine digits, by place value.
RECURSIVE PlaceValue(_)
PlaceValue(ds) ==
  IF ds = <<>> THEN 0
  ELSE DigitVal(Head(ds)) * Pow10(Len(ds) - 1) + PlaceValue(Tail(ds))

RECURSIVE StripZeros(_)
StripZeros(ds) ==
  IF Len(ds) > 1 /\ Head(ds) = "0" THEN StripZeros(Tail(ds)) ELSE ds

U32MaxText == <<"4", "2", "9", "4", "9", "6", "7", "2", "9", "5">>

RECURSIVE LexLE(_, _)
\* a <= b for digit texts of one length.
LexLE(a, b) ==
  IF a = <<>> THEN TRUE
  ELSE IF DigitVal(Head(a)) < DigitVal(Head(b)) THEN TRUE
  ELSE IF DigitVal(Head(a)) > DigitVal(Head(b)) THEN FALSE
  ELSE LexLE(Tail(a), Tail(b))

Unsigned(s) == IF s # <<>> /\ Head(s) = "+" THEN Tail(s) ELSE s

\* s is the text of an unsigned 32-bit integer.
IsU32Text(s) ==
  LET ds == Unsigned(s)
      c == StripZeros(ds)
  IN  /\ ds # <<>>
      /\ \A k \in 1..Len(ds) : ds[k] \in Digits
      /\ \/ Len(c) < 10
         \/ Len(c) = 10 /\ LexLE(c, U32MaxText)

\* Its value as <<hi, lo>>; the one ten-digit text of the inputs that is a
\* u32 is the largest u32.
U32Of(s) ==
  LET c == StripZeros(Unsigned(s))
  IN  IF Len(c) < 10 THEN <<PlaceValue(c) \div Limb, PlaceValue(c) % Limb>>
      ELSE IF c = U32MaxText THEN <<Limb - 1, Limb - 1>>
      ELSE <<>>

RECURSIVE SplitDots(_, _, _)
\* The parts of s between its dots.
SplitDots(s, cur, out) ==
  IF s = <<>> THEN Append(out, cur)
  ELSE IF Head(s) = "." THEN SplitDots(Tail(s), <<>>, Append(out, cur))
  ELSE SplitDots(Tail(s), Append(cur, Head(s)), out)

\* s is the text of an IPv4 address: four octet numerals joined by dots.
IsIPv4Text(s) ==
  LET ps == SplitDots(s, <<>>, <<>>)
  IN  Len(ps) = 4 /\ \A k \in 1..4 : ps[k] \in OctetTexts

IPv4Of(s) ==
  LET ps == SplitDots(s, <<>>, <<>>)
  IN  [k \in 1..4 |-> PlaceValue(ps[k])]

RECURSIVE SplitLines(_, _, _)
\* The lines of a byte stream: each ends at an LF, a CR just before the LF
\* belonging to the terminator; bytes after the last LF are a last line.
SplitLines(s, cur, out) ==
  IF s = <<>> THEN (IF cur = <<>> THEN out ELSE Append(out, cur))
  ELSE IF Head(s) = "LF"
       THEN SplitLines(Tail(s), <<>>,
              Append(out, IF cur # <<>> /\ cur[Len(cur)] = "CR"
                          THEN SubSeq(cur, 1, Len(cur) - 1) ELSE cur))
  ELSE SplitLines(Tail(s), Append(cur, Head(s)), out)

LinesOf(s) == SplitLines(s, <<>>, <<>>)

IsPrefix(a, b) == Len(a) <= Len(b) /\ a = SubSeq(b, 1, Len(a))

Payloads(ds) == [k \in 1..Len(ds) |-> ds[k].payload]

\* The text given to -i, the default taken when the flag is left out.
IfaceText == IF arg_i.given THEN arg_i.val ELSE <<"0">>

\* The group address of the run, 0.0.0.0 when -a is left out.
GroupAddr == IF arg_a.given THEN arg_a.val ELSE V4(0, 0, 0, 0)

IsMulticastAddr(ip) ==
  IF ip.fam = "V4" THEN ip.a[1] \in 224..239 ELSE ip.a[1] \in 65280..65535

InLoop == pc \in {"listen", "talk_read", "talk_send", "main_end", "exited_ok"}
Terminal == pc \in {"usage_error", "panicked", "exited_ok"}
PastSetup == pc \notin {"start", "main", "mc_assert", "usage_error"}

\* ---------------------------------------------------------------- claims

\* C3: parse_interface gives the index variant holding the integer for every
\* text of an unsigned 32-bit integer, otherwise the address variant holding
\* the address for every text of an IPv4 address, and a parse error (the run
\* ends with a usage error) for every other text; no text that is a u32
\* gives the address variant.
C3_ParseInterface ==
  pc # "start" =>
    LET s == IfaceText
    IN  /\ IsU32Text(s) => pc = "main" /\ cfg.iface = Left(U32Of(s))
        /\ ~IsU32Text(s) /\ IsIPv4Text(s) =>
             pc = "main" /\ cfg.iface = Right(IPv4Of(s))
        /\ ~IsU32Text(s) /\ ~IsIPv4Text(s) => pc = "usage_error" /\ cfg = NoCfg
        /\ cfg.parsed => (cfg.iface.tag = "Right" => ~IsU32Text(s))

\* C3's case: an address text gave the address variant.
C3_Witness ==
  /\ pc = "main"
  /\ arg_i.given
  /\ arg_i.val = <<"2", "5", "5", ".", "0", ".", "0", ".", "2", "5", "5">>
  /\ cfg.iface = Right(<<255, 0, 0, 255>>)

\* The run of group address 239.1.1.1:12345 with interface selector "0".
CaseC1 ==
  /\ arg_a = Arg(V4(239, 1, 1, 1))
  /\ arg_p = 12345
  /\ arg_i = Arg(<<"0">>)

BoundTo(ip, port) ==
  /\ sock.created
  /\ sock.bound = <<[set |-> TRUE, ip |-> ip, port |-> port]>>

\* C1 as claimed: with group address 239.1.1.1:12345 and interface selector
\* "0", mc_socket succeeds: it does not panic (no call of the operating
\* system failing), it returns Ok, and the socket is bound to
\* 239.1.1.1:12345.
C1_Original ==
  CaseC1 =>
    /\ panic # "none" => panic = "unwrap" /\ err = "os"
    /\ result = "Ok" => BoundTo(V4(239, 1, 1, 1), 12345)

\* C1 as amended: with group address 239.1.1.1:12345 and interface selector
\* "0", mc_socket never returns Ok and the run never enters a mode loop; the
\* selector is the index 0, and once the socket is created, configured and
\* bound to 239.1.1.1:12345 the pairing of an IPv4 group with an index panics
\* with the invalid combination, nothing being joined; a run that ends before
\* that ends with the Err of a socket call the operating system failed.
C1_Amended ==
  CaseC1 =>
    /\ result # "Ok"
    /\ ~InLoop /\ pc # "mc_return"
    /\ cfg.parsed => cfg.iface = Left(<<0, 0>>)
    /\ pc = "mc_join" => BoundTo(V4(239, 1, 1, 1), 12345)
    /\ Terminal =>
         /\ pc = "panicked"
         /\ panic \in {"invalid_combination", "unwrap"}
         /\ panic = "unwrap" <=> result = "Err" /\ err = "os"
         /\ panic = "invalid_combination" =>
              /\ BoundTo(V4(239, 1, 1, 1), 12345)
              /\ sock.joined = <<>>

\* C1's case: the socket is bound to 239.1.1.1:12345 and the pairing panicked.
C1_Witness ==
  /\ CaseC1
  /\ panic = "invalid_combination"
  /\ BoundTo(V4(239, 1, 1, 1), 12345)

\* C2: with a group address that is not multicast, mc_socket fails at its
\* assertion: no socket is ever created, bound or joined, and the run ends
\* with the assertion's panic.
C2_NonMulticastFailsFirst ==
  cfg.parsed /\ ~IsMulticastAddr(GroupAddr) =>
    /\ cfg.mc_addr = GroupAddr
    /\ steps = <<>>
    /\ sock = NoSock
    /\ result = "none"
    /\ pc \in {"main", "mc_assert", "panicked"}
    /\ pc = "panicked" => panic = "assert"

\* C2's case: a unicast group address stopped the run at the assertion.
C2_Witness ==
  /\ arg_a = Arg(V4(192, 168, 1, 10))
  /\ pc = "panicked"
  /\ panic = "assert"
  /\ steps = <<>>

\* The group's family and the selector's variant do not go together.
Mismatch ==
  /\ cfg.parsed
  /\ \/ cfg.mc_addr.fam = "V4" /\ cfg.iface.tag = "Left"
     \/ cfg.mc_addr.fam = "V6" /\ cfg.iface.tag = "Right"

\* C4: with a multicast group whose family does not match the selector's
\* variant (IPv4 with an index, IPv6 with an IPv4 address) socket
\* construction never returns a socket and joins nothing; the run ends in a
\* panic and never enters a mode loop.
C4_MismatchIsFatal ==
  Mismatch /\ IsMulticastAddr(cfg.mc_addr) =>
    /\ result # "Ok"
    /\ ~InLoop /\ pc # "mc_return"
    /\ sock.created => sock.joined = <<>>
    /\ Terminal => pc = "panicked" /\ panic \in {"invalid_combination", "unwrap"}

\* C4's case: an IPv6 group with an interface address ended in a panic.
C4_Witness ==
  /\ cfg.parsed
  /\ cfg.mc_addr = V6(<<65282, 0, 0, 0, 0, 0, 0, 1>>)
  /\ cfg.iface = Right(<<192, 168, 1, 10>>)
  /\ sock.created
  /\ pc = "panicked"

SetupOrder(join) ==
  <<"create", "set_nonblocking", "set_reuse_address", "bind", "from_std", join>>

\* The part of C5 about the socket mc_socket returns and the order of its
\* steps: any join made follows the pairing, and a socket returned is
\* non-blocking, has address reuse set, is bound to the group address and
\* port and has joined the group, the steps taken in the order create, set
\* non-blocking, set reuse, bind, join.
SocketAsConstructed ==
  /\ sock.created =>
       /\ \E j \in {"join_multicast_v4", "join_multicast_v6"} :
            IsPrefix(steps, SetupOrder(j))
       /\ sock.joined # <<>> =>
            /\ sock.joined[1].group = GroupAddr
            /\ GroupAddr.fam = "V4" =>
                 /\ cfg.iface.tag = "Right"
                 /\ sock.joined[1].via = [kind |-> "Address", val |-> cfg.iface.val]
                 /\ steps = SetupOrder("join_multicast_v4")
            /\ GroupAddr.fam = "V6" =>
                 /\ cfg.iface.tag = "Left"
                 /\ sock.joined[1].via = [kind |-> "Index", val |-> cfg.iface.val]
                 /\ steps = SetupOrder("join_multicast_v6")
  /\ result = "Ok" =>
       /\ sock.created
       /\ sock.nonblocking
       /\ sock.reuse
       /\ sock.bound = <<multi>>
       /\ multi.ip = GroupAddr /\ multi.port = arg_p
       /\ sock.joined # <<>>
  /\ InLoop => result = "Ok"

\* The group's family and the selector's variant go together.
Paired ==
  /\ cfg.parsed
  /\ \/ cfg.mc_addr.fam = "V4" /\ cfg.iface.tag = "Right"
     \/ cfg.mc_addr.fam = "V6" /\ cfg.iface.tag = "Left"

\* C5: socket construction joins the group by the pairing, an IPv4 group
\* through the selector's IPv4 address and an IPv6 group through its index:
\* for a multicast group so paired nothing but a call the operating system
\* fails keeps mc_socket from its join; and the socket it returns is
\* non-blocking, reusable, bound and joined, its steps in order.
C5_JoinsByPairing ==
  /\ SocketAsConstructed
  /\ Paired /\ IsMulticastAddr(cfg.mc_addr) /\ pc = "panicked" =>
       panic = "unwrap" /\ err = "os"

\* C10: with the default interface selector or the default group address no
\* run reaches a mode loop.  With the default group address 0.0.0.0 the run
\* fails at the multicast assertion before any socket is created.  With the
\* default selector an IPv4 multicast group ends in the invalid combination
\* panic, raised only once the socket is created and bound (a run the
\* operating system fails a socket call of ends there, in main's unwrap).
C10_DefaultsNeverRun ==
  ~arg_i.given \/ ~arg_a.given =>
    /\ ~InLoop /\ pc # "mc_return" /\ result # "Ok"
    /\ ~arg_a.given /\ PastSetup => pc = "panicked" /\ panic = "assert" /\ steps = <<>>
    /\ ~arg_i.given /\ GroupAddr.fam = "V4" /\ IsMulticastAddr(GroupAddr) =>
         /\ cfg.parsed => cfg.iface = Left(<<0, 0>>)
         /\ Terminal =>
              /\ pc = "panicked"
              /\ panic = "invalid_combination" \/ (panic = "unwrap" /\ err = "os")
              /\ panic = "invalid_combination" =>
                   BoundTo(GroupAddr, arg_p) /\ sock.joined = <<>>

\* C10's case: the default selector met an IPv4 multicast group at the match.
C10_Witness ==
  /\ ~arg_i.given
  /\ arg_a = Arg(V4(224, 0, 0, 251))
  /\ panic = "invalid_combination"
  /\ BoundTo(V4(224, 0, 0, 251), arg_p)

\* ------------------------------------------------------------ Talk mode

Talking == cfg.parsed /\ cfg.mode = "Talk"

\* C6: in Talk mode the datagrams sent are, in order, the lines of standard
\* input, one datagram a line, each to the group address and port and each
\* carrying the line's bytes without its terminator (an empty line an empty
\* datagram); a line's send is over before the next line is read, and
\* nothing else is ever sent.
C6_OneDatagramPerLine ==
  Talking =>
    /\ IsPrefix(linesRead, LinesOf(stdin))
    /\ IsPrefix(Payloads(sent), linesRead)
    /\ Len(linesRead) <= Len(sent) + 1
    /\ pc = "talk_read" => Payloads(sent) = linesRead
    /\ pc = "talk_send" => Len(linesRead) = Len(sent) + 1 /\ line = linesRead[Len(linesRead)]
    /\ \A k \in 1..Len(sent) :
         /\ sent[k].to.ip = GroupAddr
         /\ sent[k].to.port = arg_p
    /\ sendAttempts <= Len(linesRead)

\* C6's case: a line ended by CR LF and an empty line were both sent.
C6_Witness ==
  /\ Talking
  /\ stdin = <<"a", "CR", "LF", "LF">>
  /\ Payloads(sent) = << <<"a">>, <<>> >>
  /\ pc = "talk_read"

\* C7: in Talk mode, once standard input is at its end the process exits
\* normally: by then a datagram was sent for every line of the input,
\* nothing is sent afterwards, and the exit follows.
C7_EofExits ==
  /\ [](eof => /\ Talking
               /\ Payloads(sent) = LinesOf(stdin)
               /\ panic = "none"
               /\ pc \in {"main_end", "exited_ok"})
  /\ [][eof => sent' = sent]_vars
  /\ (eof ~> pc = "exited_ok")

\* C7's case: the input of two lines was sent and the process has exited.
C7_Witness ==
  /\ eof
  /\ pc = "exited_ok"
  /\ Len(sent) = 2

\* C8: in Talk mode the first failed send or failed read of standard input
\* is fatal: the process panics there, the failed send was tried once, and
\* nothing is read or sent after it.
C8_FirstFailureIsFatal ==
  /\ [](ioFailed \in {"read", "send"} =>
          /\ pc = "panicked"
          /\ panic = (IF ioFailed = "read" THEN "unwrap_read" ELSE "unwrap_send")
          /\ ~eof
          /\ ioFailed = "read" =>
               sendAttempts = Len(sent) /\ Len(linesRead) = Len(sent)
          /\ ioFailed = "send" =>
               sendAttempts = Len(sent) + 1 /\ Len(linesRead) = Len(sent) + 1)
  /\ [][pc = "panicked" => FALSE]_vars

\* C8's case: the second line's send failed after the first line's went out.
C8_Witness ==
  /\ ioFailed = "send"
  /\ Len(sent) = 1
  /\ sendAttempts = 2
  /\ pc = "panicked"

\* ---------------------------------------------------------- Listen mode

Listening == cfg.parsed /\ cfg.mode = "Listen"

\* C9: in Listen mode the output is one line "Received <N> bytes from
\* <sender>" for each datagram received, in order, N at most the buffer's
\* size; the loop goes on after every datagram and ends only at a failed
\* receive, for which nothing is printed and after which the process exits
\* normally; the process never sends and never reads standard input.
C9_ListenLoop ==
  /\ [](Listening =>
          /\ Len(stdout) = Len(received)
          /\ \A k \in 1..Len(received) :
               /\ stdout[k] = <<"Received ", received[k].size, " bytes from ",
                                received[k].from>>
               /\ received[k].size <= 1024
          /\ sent = <<>> /\ sendAttempts = 0
          /\ rest = stdin /\ linesRead = <<>> /\ ~eof
          /\ pc \in {"main_end", "exited_ok"} <=> ioFailed = "recv"
          /\ result = "Ok" => panic = "none" /\ pc # "panicked")
  /\ [][pc = "listen" /\ received' # received => pc' = "listen"]_vars
  /\ [][ioFailed = "recv" => UNCHANGED <<stdout, received>>]_vars

\* C9's case: two datagrams were printed, then a receive failed and the
\* process exited.
C9_Witness ==
  /\ Listening
  /\ Len(stdout) = 2
  /\ stdout[1] = <<"Received ", 5, " bytes from ",
                   [ip |-> V4(10, 0, 0, 7), port |-> 40000]>>
  /\ stdout[2][2] = 1024
  /\ ioFailed = "recv"
  /\ pc = "exited_ok"

====
